---- MODULE Spec2Model ----
(***************************************************************************)
(* Model of the resilience layer of mcp-x-query: the three-state           *)
(* CircuitBreaker (src/lib/circuit-breaker.ts), GrokClient.query() and     *)
(* GrokClient.analyzeMedia() (src/lib/grok-client.ts), the TtlCache and    *)
(* PersistentTtlCache (src/lib/cache.ts) and getTweet (src/tools).         *)
(*                                                                         *)
(* The specifications share the variables:                                 *)
(*   BreakerSpec  the breaker driven directly through check(),             *)
(*                onSuccess() and onFailure(), as its unit tests do;       *)
(*   Spec         concurrently in-flight query() calls of one GrokClient   *)
(*                sharing its private breaker;                             *)
(*   TtlSpec      one TtlCache under get(), set() and clear();             *)
(*   PersistSpec  PersistentTtlCache instances built one after the other   *)
(*                on one file, with file operations that may fail;         *)
(*   TweetSpec    getTweet with its media enrichment, beside direct        *)
(*                analyzeMedia() calls;                                    *)
(*   LiveSpec     upstream calls under the transport's timeouts and        *)
(*                retries, with fair clock and timers;                     *)
(*   TrendSpec    concurrent get_trending tool calls under run(), sharing  *)
(*                trendingCache and the client's breaker;                  *)
(*   CursorSpec   computeNextCursor() applied to a page of tweets;         *)
(*   RecoverSpec  query() callers while the upstream fails and then        *)
(*                recovers, with fair clock, calls and answers;            *)
(*   ShareSpec    two PersistentTtlCache instances on one file.            *)
(* Time is the value of Date.now(), advanced by the tick action of each    *)
(* specification, and by check() between its two readings of the clock.    *)
(***************************************************************************)
EXTENDS Integers, Sequences, FiniteSets

\* ---------------------------------------------------------------- bounds
MaxFailureThreshold == 3
MaxRetryTimeoutMs == 2
MaxTime == 4
MaxTtlMs == 2
MaxMedia == 2
MaxTweets == 3
NumClients == 2

Clients == 1..NumClients
StreakCap == MaxFailureThreshold + 1

VARIABLES
  failureThreshold,  \* CircuitBreaker.failureThreshold (constructor parameter)
  retryTimeoutMs,    \* CircuitBreaker.retryTimeoutMs (constructor parameter)
  state,             \* CircuitBreaker.state
  failureCount,      \* CircuitBreaker.failureCount
  nextAttemptAt,     \* CircuitBreaker.nextAttemptAt
  now,               \* Date.now()
  pc,                \* per query(): "idle" or "awaiting" (suspended at the await)
  ev,                \* observation of the last step: calls made, error thrown
  openedAt,          \* history: Date.now() of the last step that set state = open
  streak,            \* history: onFailure() calls since the last onSuccess()
  fresh,             \* history: no onSuccess() has been called yet
  probe,             \* history: the query let through by the open -> half-open check
  ntRun,             \* history: upstream responses so far, if all were non-transient
  ttlMs,             \* TtlCache.ttlMs (constructor parameter)
  store,             \* TtlCache.store: Map from key to {value, expiresAt}
  file,              \* content of PersistentTtlCache.filePath on disk
  pathOk,            \* environment: FALSE when filePath is inaccessible
  ref,               \* a plain TtlCache of the same ttl given the calls of a degraded one
  cev,               \* observation of the last cache step
  lastSet,           \* history: time and value of the last set() of each key
  clearedKeys,       \* history: keys not set again since the last clear()
  degraded,          \* history: the instance was built on a failing or invalid file
  afterClear,        \* history: "no" / "unlinked" / "kept": last write was a clear()
  enriching,         \* getTweet is suspended at its await Promise.all(...)
  item,              \* per media item of the tweet: where its callback stands
  direct,            \* an analyzeMedia() call made by another tool
  tev,               \* observation of the last getTweet / analyzeMedia step
  timer,             \* per upstream call: deadline of the attempt, attempts made
  tweets,            \* the page of tweets given to computeNextCursor()
  nextCursor,        \* what computeNextCursor() returned, "pending" before
  req,               \* per getTrending() suspended in query(): its cache key
  trev,              \* observation of the last getTrending() step
  response,          \* the MCP response run() returned last
  recoveredIn,       \* "no", or the breaker state when the upstream recovered
  peer               \* store of a second PersistentTtlCache on the same file

breakerVars == <<failureThreshold, retryTimeoutMs, state, failureCount, nextAttemptAt>>
vars == <<failureThreshold, retryTimeoutMs, state, failureCount, nextAttemptAt,
          now, pc, ev, openedAt, streak, fresh, probe, ntRun,
          ttlMs, store, file, pathOk, ref, cev, lastSet, clearedKeys,
          degraded, afterClear, enriching, item, direct, tev, timer,
          tweets, nextCursor, req, trev, response, recoveredIn, peer>>
\* everything of the breaker and of query() but the clock
clientVars == <<breakerVars, pc, ev, openedAt, streak, fresh, probe, ntRun>>
cacheVars == <<ttlMs, store, file, pathOk, ref, cev, lastSet, clearedKeys,
               degraded, afterClear>>
tweetVars == <<enriching, item, direct, tev>>
toolVars == <<tweets, nextCursor, req, trev, response, recoveredIn, peer>>
extVars == <<cacheVars, tweetVars, timer, toolVars>>

\* ------------------------------------------------------- circuit breaker
Breaker == [state |-> state, failureCount |-> failureCount,
            nextAttemptAt |-> nextAttemptAt]

\* check() with the comparison of line 48 made strict
checkStrict(b, t) ==
  IF b.state = "closed" THEN [b |-> b, threw |-> FALSE]
  ELSE IF b.state = "open" THEN
    IF t > b.nextAttemptAt
      THEN [b |-> [b EXCEPT !.state = "half-open"], threw |-> FALSE]
      ELSE [b |-> b, threw |-> TRUE]
  ELSE [b |-> b, threw |-> FALSE]

\* check() that flips to half-open before it throws
checkFlipsEarly(b, t) ==
  IF b.state = "closed" THEN [b |-> b, threw |-> FALSE]
  ELSE IF b.state = "open" THEN
    IF t >= b.nextAttemptAt
      THEN [b |-> [b EXCEPT !.state = "half-open"], threw |-> FALSE]
      ELSE [b |-> [b EXCEPT !.state = "half-open"], threw |-> TRUE]
  ELSE [b |-> b, threw |-> FALSE]

\* check(): the breaker after the call and whether it threw
check(b, t) ==
  IF b.state = "closed" THEN [b |-> b, threw |-> FALSE]
  ELSE IF b.state = "open" THEN
    IF t >= b.nextAttemptAt
      THEN [b |-> [b EXCEPT !.state = "half-open"], threw |-> FALSE]
      ELSE [b |-> b, threw |-> TRUE]
  ELSE [b |-> b, threw |-> FALSE]

\* onSuccess() that resets the counter but leaves the state as it is
onSuccessKeepsState(b) == [b EXCEPT !.failureCount = 0]

\* onSuccess() that closes the circuit but keeps the counter
onSuccessKeepsCount(b) == [b EXCEPT !.state = "closed"]

onSuccess(b) == [b EXCEPT !.failureCount = 0, !.state = "closed"]

\* onFailure() with the threshold comparison of line 73 made strict
onFailureStrict(b, t) ==
  LET n == b.failureCount + 1 IN
  IF b.state = "half-open" \/ n > failureThreshold
    THEN [state |-> "open", failureCount |-> 0,
          nextAttemptAt |-> t + retryTimeoutMs]
    ELSE [b EXCEPT !.failureCount = n]

\* onFailure() without the half-open test of line 73
onFailureCountsOnly(b, t) ==
  LET n == b.failureCount + 1 IN
  IF n >= failureThreshold
    THEN [state |-> "open", failureCount |-> 0,
          nextAttemptAt |-> t + retryTimeoutMs]
    ELSE [b EXCEPT !.failureCount = n]

\* onFailure() that opens without the reset of line 76
onFailureKeepsCount(b, t) ==
  LET n == b.failureCount + 1 IN
  IF b.state = "half-open" \/ n >= failureThreshold
    THEN [state |-> "open", failureCount |-> n,
          nextAttemptAt |-> t + retryTimeoutMs]
    ELSE [b EXCEPT !.failureCount = n]

\* onFailure() that opens without adding retryTimeoutMs at line 75
onFailureNoTimeout(b, t) ==
  LET n == b.failureCount + 1 IN
  IF b.state = "half-open" \/ n >= failureThreshold
    THEN [state |-> "open", failureCount |-> 0, nextAttemptAt |-> t]
    ELSE [b EXCEPT !.failureCount = n]

onFailure(b, t) ==
  LET n == b.failureCount + 1 IN
  IF b.state = "half-open" \/ n >= failureThreshold
    THEN [state |-> "open", failureCount |-> 0,
          nextAttemptAt |-> t + retryTimeoutMs]
    ELSE [b EXCEPT !.failureCount = n]

\* did this onFailure() run its opening branch (lines 74-76)?  The other
\* branch leaves failureCount >= 1.
Opened(b, b2) == b2.state = "open" /\ (b.state # "open" \/ b2.failureCount = 0)

SetBreaker(b) ==
  /\ state' = b.state
  /\ failureCount' = b.failureCount
  /\ nextAttemptAt' = b.nextAttemptAt
  /\ UNCHANGED <<failureThreshold, retryTimeoutMs>>

Min(a, b) == IF a < b THEN a ELSE b

NoEv == [op |-> "init", calls |-> <<>>, threw |-> "none", upstream |-> FALSE,
         cause |-> "none", from |-> "closed", returned |-> FALSE,
         retryInMs |-> 0]

\* new GrokCircuitOpenError(retryInMs): the error keeps its argument
GrokCircuitOpenError(ms) == [name |-> "GrokCircuitOpenError", retryInMs |-> ms]

\* ------------------------------------------------ media data structures
Slots == 1..MaxMedia
NoTev == [op |-> "init", url |-> "none", request |-> FALSE, result |-> "none",
          threw |-> "none", outcome |-> "none", afterMatch |-> FALSE,
          issued |-> {}, cause |-> "none", message |-> ""]

\* no getTweet and no analyzeMedia call is under way
NoTweet ==
  /\ enriching = FALSE
  /\ item = [i \in Slots |-> "none"]
  /\ direct = "idle"
  /\ tev = NoTev

\* ------------------------------------------------------ transport timers
\* the upstream calls followed under their timers: the request of the
\* query() of caller 1 and (call 0) the vision request of an analyzeMedia()
Calls == {0, 1}
NoTimer == [deadline |-> -1, attempt |-> 0, timedOut |-> FALSE]
NoTimers == [c \in Calls |-> NoTimer]

\* ------------------------------------------------- cache data structures
Keys == {"k1", "k2"}
\* cached values: a JSON-safe one and one JSON.stringify() does not preserve
Values == {"a", "NaN"}
Undefined == "undefined"

\* new Map()
EmptyStore == [k \in {} |-> 0]
NoFile == [kind |-> "absent", data |-> EmptyStore, bad |-> "none"]
NeverSet == [k \in Keys |-> [at |-> -1, value |-> Undefined]]
NoCev == [op |-> "init", key |-> "none", value |-> Undefined, result |-> Undefined,
          refResult |-> Undefined, threw |-> FALSE, io |-> "none",
          prev |-> EmptyStore, live |-> {}, fileWas |-> "none",
          inst |-> 0]

\* no cache instance exists
NoCache ==
  /\ ttlMs = 1
  /\ store = EmptyStore
  /\ file = NoFile
  /\ pathOk = TRUE
  /\ ref = EmptyStore
  /\ cev = NoCev
  /\ lastSet = NeverSet
  /\ clearedKeys = {}
  /\ degraded = FALSE
  /\ afterClear = "no"

\* -------------------------------------------------- tool data structures
NoTrev == [op |-> "init", client |-> 0, category |-> Undefined,
           key |-> "", hit |-> FALSE,
           result |-> Undefined, query |-> FALSE, outcome |-> "none",
           threw |-> "none", message |-> "", raced |-> FALSE]

\* no run() call returned in the step
NoResponse == [content |-> <<>>]

\* no tool call has been made
NoTools ==
  /\ tweets = <<>>
  /\ nextCursor = "pending"
  /\ req = [c \in Clients |-> "none"]
  /\ trev = NoTrev
  /\ response = NoResponse
  /\ recoveredIn = "no"
  /\ peer = EmptyStore

Init ==
  /\ failureThreshold \in 1..MaxFailureThreshold
  /\ retryTimeoutMs \in 1..MaxRetryTimeoutMs
  /\ state = "closed"
  /\ failureCount = 0
  /\ nextAttemptAt = 0
  /\ now = 0
  /\ pc = [c \in Clients |-> "idle"]
  /\ ev = NoEv
  /\ openedAt = -1
  /\ streak = 0
  /\ fresh = TRUE
  /\ probe = 0
  /\ ntRun = 0
  /\ NoCache
  /\ NoTweet
  /\ timer = NoTimers
  /\ NoTools

Tick ==
  /\ now < MaxTime
  /\ now' = now + 1
  /\ ev' = [NoEv EXCEPT !.op = "tick", !.from = state]
  /\ UNCHANGED <<breakerVars, pc, openedAt, streak, fresh, probe, ntRun>>
  /\ UNCHANGED extVars

\* ------------------------------------------- the breaker called directly
\* check(); on its throwing path line 52 reads Date.now() again, no earlier
\* than the reading t of line 48 that decided to throw
Check ==
  LET r == check(Breaker, now) IN
  \E t2 \in {now, now + 1} :
    LET err == GrokCircuitOpenError(nextAttemptAt - t2) IN
    /\ t2 <= MaxTime
    /\ t2 # now => r.threw
    /\ SetBreaker(r.b)
    /\ now' = t2
    /\ ev' = [NoEv EXCEPT !.op = "check", !.calls = <<"check">>, !.from = state,
                !.threw = IF r.threw THEN err.name ELSE "none",
                !.retryInMs = IF r.threw THEN err.retryInMs ELSE 0]
    /\ UNCHANGED <<pc, openedAt, streak, fresh, probe, ntRun>>
    /\ UNCHANGED extVars

OnSuccess ==
  /\ SetBreaker(onSuccess(Breaker))
  /\ ev' = [NoEv EXCEPT !.op = "onSuccess", !.calls = <<"onSuccess">>,
              !.from = state]
  /\ streak' = 0
  /\ fresh' = FALSE
  /\ UNCHANGED <<now, pc, openedAt, probe, ntRun>>
  /\ UNCHANGED extVars

OnFailure ==
  LET b2 == onFailure(Breaker, now) IN
  /\ SetBreaker(b2)
  /\ ev' = [NoEv EXCEPT !.op = "onFailure", !.calls = <<"onFailure">>,
              !.from = state]
  /\ streak' = Min(streak + 1, StreakCap)
  /\ openedAt' = IF Opened(Breaker, b2) THEN now ELSE openedAt
  /\ UNCHANGED <<now, pc, fresh, probe, ntRun>>
  /\ UNCHANGED extVars

BreakerNext == Tick \/ Check \/ OnSuccess \/ OnFailure

BreakerSpec == Init /\ [][BreakerNext]_vars

\* ------------------------------------------------------ GrokClient.query
\* What the awaited responses.create() settles with, after the transport's
\* own retries: an error class of the OpenAI transport, or a response whose
\* output_text is of one of four kinds.
NonTransientErrors == {"AuthenticationError", "PermissionDeniedError", "RateLimitError"}
TransientErrors == {"InternalServerError", "APIConnectionError"}
UpstreamErrors == NonTransientErrors \cup TransientErrors
Payloads == {"valid", "empty", "malformed", "schemaInvalid"}
Responses == UpstreamErrors \cup Payloads

\* the classification without the permission errors (403)
isNonTransientNoPermission(err) ==
  err \in NonTransientErrors \ {"PermissionDeniedError"}

\* the classification of the catch block without its RateLimitError line
isNonTransientNoRateLimit(err) ==
  err \in {"AuthenticationError", "PermissionDeniedError"}

\* the classification of the catch block also exempting server errors
isNonTransientAlsoServer(err) ==
  err \in {"AuthenticationError", "PermissionDeniedError", "RateLimitError",
           "InternalServerError"}

isNonTransient(err) ==
  err \in {"AuthenticationError", "PermissionDeniedError", "RateLimitError"}

\* class of the error rethrowApiError() throws for err
rethrowApiError(err) ==
  IF err \in {"AuthenticationError", "PermissionDeniedError"} THEN "GrokAuthError"
  ELSE IF err = "RateLimitError" THEN "GrokRateLimitError"
  ELSE err

\* the payload checks without the test for a response holding no text
payloadErrorNoEmpty(p) ==
  IF p = "malformed" THEN "Error"
  ELSE IF p = "schemaInvalid" THEN "ZodError"
  ELSE "none"

\* the payload checks without the final schema.parse()
payloadErrorNoSchema(p) ==
  IF p = "empty" THEN "Error"
  ELSE IF p = "malformed" THEN "Error"
  ELSE "none"

\* class of the error the payload checks throw, "none" when query() returns
payloadError(p) ==
  IF p = "empty" THEN "Error"
  ELSE IF p = "malformed" THEN "Error"
  ELSE IF p = "schemaInvalid" THEN "ZodError"
  ELSE "none"

\* query() up to its await: schema conversion, check(), responses.create()
QueryCallCore(c) ==
  LET r == check(Breaker, now) IN
  /\ pc[c] = "idle"
  /\ SetBreaker(r.b)
  /\ pc' = IF r.threw THEN pc ELSE [pc EXCEPT ![c] = "awaiting"]
  /\ UNCHANGED now

\* the same step with what it is observed to do and the history it leaves
QueryCallStep(c) ==
  /\ QueryCallCore(c)
  /\ ev' = IF check(Breaker, now).threw
             THEN [NoEv EXCEPT !.op = "call", !.calls = <<"check">>,
                     !.from = state, !.cause = "circuit",
                     !.threw = "GrokCircuitOpenError"]
             ELSE [NoEv EXCEPT !.op = "call", !.calls = <<"check">>,
                     !.from = state, !.upstream = TRUE]
  /\ probe' = IF pc'[c] = "awaiting" /\ state = "open" /\ state' = "half-open"
                 THEN c ELSE probe
  /\ UNCHANGED <<openedAt, streak, fresh, ntRun>>

QueryCall(c) == QueryCallStep(c) /\ UNCHANGED extVars

\* query() after its await, calling onSuccess() only once the payload has
\* passed its checks
QueryResumeCoreLateSuccess(c, r) ==
  LET failed == r \in UpstreamErrors
      counted == failed /\ ~isNonTransient(r)
      b2 == IF counted THEN onFailure(Breaker, now)
            ELSE IF failed \/ payloadError(r) # "none" THEN Breaker
            ELSE onSuccess(Breaker)
  IN
  /\ pc[c] = "awaiting"
  /\ SetBreaker(b2)
  /\ pc' = [pc EXCEPT ![c] = "idle"]
  /\ UNCHANGED now

\* query() from its await to its return or throw
QueryResumeCore(c, r) ==
  LET failed == r \in UpstreamErrors
      counted == failed /\ ~isNonTransient(r)
      b2 == IF counted THEN onFailure(Breaker, now)
            ELSE IF failed THEN Breaker
            ELSE onSuccess(Breaker)
  IN
  /\ pc[c] = "awaiting"
  /\ SetBreaker(b2)
  /\ pc' = [pc EXCEPT ![c] = "idle"]
  /\ UNCHANGED now

\* the same step with what it is observed to do and the history it leaves
QueryResumeStep(c, r) ==
  LET failed == r \in UpstreamErrors
      counted == failed /\ ~isNonTransient(r)
      b2 == [state |-> state', failureCount |-> failureCount',
             nextAttemptAt |-> nextAttemptAt']
      thrown == IF failed THEN rethrowApiError(r) ELSE payloadError(r)
  IN
  /\ QueryResumeCore(c, r)
  /\ ev' = [NoEv EXCEPT !.op = "resume", !.from = state, !.cause = r,
              !.calls = IF counted THEN <<"onFailure">>
                        ELSE IF failed THEN <<>> ELSE <<"onSuccess">>,
              !.threw = thrown, !.returned = (thrown = "none")]
  /\ probe' = IF probe = c THEN 0 ELSE probe
  /\ streak' = IF counted THEN Min(streak + 1, StreakCap)
               ELSE IF failed THEN streak ELSE 0
  /\ fresh' = (fresh /\ failed)
  /\ openedAt' = IF counted /\ Opened(Breaker, b2) THEN now ELSE openedAt
  /\ ntRun' = IF ntRun >= 0 /\ r \in NonTransientErrors
                THEN Min(ntRun + 1, MaxFailureThreshold) ELSE -1

QueryResume(c, r) == QueryResumeStep(c, r) /\ UNCHANGED extVars

Next ==
  \/ Tick
  \/ \E c \in Clients : QueryCall(c)
  \/ \E c \in Clients, r \in Responses : QueryResume(c, r)

Spec == Init /\ [][Next]_vars

\* ---------------------------------------------------------------- TtlCache
\* get() expiring an entry already at its expiresAt
getExpiresAtDeadline(s, k, t) ==
  IF k \notin DOMAIN s THEN [store |-> s, value |-> Undefined]
  ELSE IF t >= s[k].expiresAt
    THEN [store |-> [x \in DOMAIN s \ {k} |-> s[x]], value |-> Undefined]
    ELSE [store |-> s, value |-> s[k].value]

\* get() sweeping every expired entry when it finds one
getSweepsAll(s, k, t) ==
  IF k \notin DOMAIN s THEN [store |-> s, value |-> Undefined]
  ELSE IF t > s[k].expiresAt
    THEN [store |-> [x \in {y \in DOMAIN s : t <= s[y].expiresAt} |-> s[x]],
          value |-> Undefined]
    ELSE [store |-> s, value |-> s[k].value]

\* TtlCache.get(key) at Date.now() = t: the store it leaves and what it returns
get(s, k, t) ==
  IF k \notin DOMAIN s THEN [store |-> s, value |-> Undefined]
  ELSE IF t > s[k].expiresAt
    THEN [store |-> [x \in DOMAIN s \ {k} |-> s[x]], value |-> Undefined]
    ELSE [store |-> s, value |-> s[k].value]

\* set() that leaves an entry already stored under the key as it is
setFirstWins(s, k, v, t, ttl) ==
  [x \in DOMAIN s \cup {k} |->
     IF x = k /\ k \notin DOMAIN s THEN [value |-> v, expiresAt |-> t + ttl] ELSE s[x]]

\* set() that keeps the expiry of an entry it overwrites
setKeepsExpiry(s, k, v, t, ttl) ==
  [x \in DOMAIN s \cup {k} |->
     IF x = k
       THEN [value |-> v,
             expiresAt |-> IF k \in DOMAIN s THEN s[k].expiresAt ELSE t + ttl]
       ELSE s[x]]

\* TtlCache.set(key, value) at Date.now() = t
set(s, k, v, t, ttl) ==
  [x \in DOMAIN s \cup {k} |->
     IF x = k THEN [value |-> v, expiresAt |-> t + ttl] ELSE s[x]]

\* clear() that only drops the expired entries
clearExpiredOnly(s, t) == [x \in {y \in DOMAIN s : t <= s[y].expiresAt} |-> s[x]]

\* TtlCache.clear() at Date.now() = t
clear(s, t) == EmptyStore

\* the breaker and the client play no part in the cache specifications
ClientIdle ==
  /\ failureThreshold = MaxFailureThreshold
  /\ retryTimeoutMs = MaxRetryTimeoutMs
  /\ state = "closed"
  /\ failureCount = 0
  /\ nextAttemptAt = 0
  /\ pc = [c \in Clients |-> "idle"]
  /\ ev = NoEv
  /\ openedAt = -1
  /\ streak = 0
  /\ fresh = TRUE
  /\ probe = 0
  /\ ntRun = 0

\* new TtlCache(ttlMs)
TtlInit ==
  /\ ClientIdle
  /\ now = 0
  /\ ttlMs \in 1..MaxTtlMs
  /\ store = EmptyStore
  /\ file = NoFile
  /\ pathOk = TRUE
  /\ ref = EmptyStore
  /\ cev = NoCev
  /\ lastSet = NeverSet
  /\ clearedKeys = {}
  /\ degraded = FALSE
  /\ afterClear = "no"
  /\ NoTweet
  /\ timer = NoTimers
  /\ NoTools

\* Date.now() advances
Advance ==
  /\ now < MaxTime
  /\ now' = now + 1
  /\ cev' = [NoCev EXCEPT !.op = "tick"]
  /\ UNCHANGED <<clientVars, ttlMs, store, file, pathOk, ref, lastSet,
                 clearedKeys, degraded, afterClear>>
  /\ UNCHANGED <<tweetVars, timer, toolVars>>

Get(k) ==
  LET r == get(store, k, now) IN
  /\ store' = r.store
  /\ cev' = [NoCev EXCEPT !.op = "get", !.key = k, !.result = r.value,
               !.prev = store]
  /\ UNCHANGED <<clientVars, now, ttlMs, file, pathOk, ref, lastSet,
                 clearedKeys, degraded, afterClear>>
  /\ UNCHANGED <<tweetVars, timer, toolVars>>

Set(k, v) ==
  /\ store' = set(store, k, v, now, ttlMs)
  /\ lastSet' = [lastSet EXCEPT ![k] = [at |-> now, value |-> v]]
  /\ clearedKeys' = clearedKeys \ {k}
  /\ cev' = [NoCev EXCEPT !.op = "set", !.key = k, !.value = v, !.prev = store]
  /\ UNCHANGED <<clientVars, now, ttlMs, file, pathOk, ref, degraded, afterClear>>
  /\ UNCHANGED <<tweetVars, timer, toolVars>>

Clear ==
  /\ store' = clear(store, now)
  /\ lastSet' = NeverSet
  /\ clearedKeys' = Keys
  /\ cev' = [NoCev EXCEPT !.op = "clear", !.prev = store]
  /\ UNCHANGED <<clientVars, now, ttlMs, file, pathOk, ref, degraded, afterClear>>
  /\ UNCHANGED <<tweetVars, timer, toolVars>>

TtlNext ==
  \/ Advance
  \/ \E k \in Keys : Get(k)
  \/ \E k \in Keys, v \in Values : Set(k, v)
  \/ Clear

TtlSpec == TtlInit /\ [][TtlNext]_vars

\* ------------------------------------------------------ PersistentTtlCache
\* a file JSON.parse() rejects: edited, or truncated by a write that failed
CorruptFile == [kind |-> "corrupt", data |-> EmptyStore, bad |-> "none"]

\* a JSON object with one hydratable entry and one member that is not an
\* entry record (null), after it or before it in the order of Object.entries()
OneEntry == [k \in {"k1"} |-> [value |-> "a", expiresAt |-> MaxTtlMs]]
BadLastFile == [kind |-> "json", data |-> OneEntry, bad |-> "last"]
BadFirstFile == [kind |-> "json", data |-> OneEntry, bad |-> "first"]
InvalidFiles == {CorruptFile, BadLastFile, BadFirstFile}
isInvalid(f) == f.kind = "corrupt" \/ f.bad # "none"

\* outcomes of mkdirSync + writeFileSync: on an accessible path the write is
\* done or fails after the file was truncated; on an inaccessible one it is
\* refused and the file is not touched
WriteOutcomes == IF pathOk THEN {"ok", "enospc"} ELSE {"eacces"}
\* outcomes of readFileSync and of unlinkSync
IoOutcomes == IF pathOk THEN {"ok", "fail"} ELSE {"fail"}

\* JSON.parse(JSON.stringify(v)) of a cached value
toJson(v) == IF v = "NaN" THEN "null" ELSE v

\* JSON.stringify(obj) of saveToFile, as the parsed object
serialize(s) ==
  [k \in DOMAIN s |-> [value |-> toJson(s[k].value), expiresAt |-> s[k].expiresAt]]

\* loadFromFile() at Date.now() = t: the store it leaves (it never throws:
\* a failing read, a parse error and an unreadable entry end the hydration)
loadFromFile(f, io, t) ==
  IF io # "ok" \/ f.kind # "json" \/ f.bad = "first" THEN EmptyStore
  ELSE [k \in {x \in DOMAIN f.data : f.data[x].expiresAt > t} |-> f.data[k]]

saveToFileOnceBroken(s, f, io) ==
  IF io = "ok" /\ f.kind # "corrupt"
  THEN [kind |-> "json", data |-> serialize(s), bad |-> "none"]
  ELSE IF io = "enospc" THEN CorruptFile
  ELSE f

saveToFileMerges(s, f, io) ==
  IF io = "ok"
  THEN [kind |-> "json", bad |-> "none",
        data |-> [k \in DOMAIN s \cup DOMAIN f.data |->
                    IF k \in DOMAIN s THEN serialize(s)[k] ELSE f.data[k]]]
  ELSE IF io = "enospc" THEN CorruptFile
  ELSE f

\* saveToFile(): the file it leaves
saveToFile(s, f, io) ==
  IF io = "ok" THEN [kind |-> "json", data |-> serialize(s), bad |-> "none"]
  ELSE IF io = "enospc" THEN CorruptFile
  ELSE f

\* keys of the entries of a file that a construction at t would hydrate
liveOnDisk(f, t) == DOMAIN loadFromFile(f, "ok", t)

\* unlinkSync(filePath) inside the try of clear(): the file it leaves
unlink(f, io) == IF io = "ok" THEN NoFile ELSE f

\* new PersistentTtlCache(ttlMs, filePath) on a path that holds no file, an
\* invalid file, or is inaccessible
PersistInit ==
  /\ ClientIdle
  /\ now = 0
  /\ ttlMs \in 1..MaxTtlMs
  /\ pathOk \in BOOLEAN
  /\ file \in (IF pathOk THEN {NoFile} \cup InvalidFiles ELSE {NoFile})
  /\ store = loadFromFile(file, IF pathOk THEN "ok" ELSE "fail", now)
  /\ ref = EmptyStore
  /\ cev = [NoCev EXCEPT !.op = "construct",
              !.io = IF pathOk THEN "ok" ELSE "fail"]
  /\ lastSet = NeverSet
  /\ clearedKeys = {}
  /\ degraded = (~pathOk \/ isInvalid(file))
  /\ afterClear = "no"
  /\ NoTweet
  /\ timer = NoTimers
  /\ NoTools

\* a new instance on the same path (the process restarted)
Construct(ttl, io) ==
  /\ io \in IoOutcomes
  /\ ttlMs' = ttl
  /\ store' = loadFromFile(file, io, now)
  /\ ref' = EmptyStore
  /\ clearedKeys' = {}
  /\ degraded' = (~pathOk \/ isInvalid(file))
  /\ cev' = [NoCev EXCEPT !.op = "construct", !.io = io]
  /\ UNCHANGED <<clientVars, now, file, pathOk, lastSet, afterClear>>
  /\ UNCHANGED <<tweetVars, timer, toolVars>>

PGet(k) ==
  LET r == get(store, k, now)
      p == get(ref, k, now)
  IN
  /\ store' = r.store
  /\ ref' = IF degraded THEN p.store ELSE ref
  /\ cev' = [NoCev EXCEPT !.op = "get", !.key = k, !.result = r.value,
               !.refResult = p.value]
  /\ UNCHANGED <<clientVars, now, ttlMs, file, pathOk, lastSet, clearedKeys,
                 degraded, afterClear>>
  /\ UNCHANGED <<tweetVars, timer, toolVars>>

PSet(k, v, io) ==
  /\ io \in WriteOutcomes
  /\ store' = set(store, k, v, now, ttlMs)
  /\ file' = saveToFile(store', file, io)
  /\ ref' = IF degraded THEN set(ref, k, v, now, ttlMs) ELSE ref
  /\ clearedKeys' = clearedKeys \ {k}
  /\ afterClear' = "no"
  /\ cev' = [NoCev EXCEPT !.op = "set", !.key = k, !.value = v, !.io = io,
               !.fileWas = file.kind]
  /\ UNCHANGED <<clientVars, now, ttlMs, pathOk, lastSet, degraded>>
  /\ UNCHANGED <<tweetVars, timer, toolVars>>

PClear(io) ==
  /\ io \in IoOutcomes
  /\ store' = clear(store, now)
  /\ file' = unlink(file, io)
  /\ ref' = clear(ref, now)
  /\ clearedKeys' = Keys
  /\ afterClear' = IF file' = NoFile THEN "unlinked" ELSE "kept"
  /\ cev' = [NoCev EXCEPT !.op = "clear", !.io = io, !.live = liveOnDisk(file, now)]
  /\ UNCHANGED <<clientVars, now, ttlMs, pathOk, lastSet, degraded>>
  /\ UNCHANGED <<tweetVars, timer, toolVars>>

PersistNext ==
  \/ Advance
  \/ \E ttl \in 1..MaxTtlMs, io \in {"ok", "fail"} : Construct(ttl, io)
  \/ \E k \in Keys : PGet(k)
  \/ \E k \in Keys, v \in Values, io \in {"ok", "eacces", "enospc"} : PSet(k, v, io)
  \/ \E io \in {"ok", "fail"} : PClear(io)

PersistSpec == PersistInit /\ [][PersistNext]_vars

\* ------------------------------ two PersistentTtlCache on one file
\* two processes run the server with the same cache file: each holds its own
\* in-memory store (`store` for instance 1, `peer` for instance 2), both of
\* the same ttl, and every read and write of the file succeeds
Instances == {1, 2}
\* the value each instance caches, telling the writers apart
ValueOf == <<"a", "b">>
Inst(i) == IF i = 1 THEN store ELSE peer

ShareInit ==
  /\ ClientIdle
  /\ now = 0
  /\ ttlMs \in 1..MaxTtlMs
  /\ pathOk = TRUE
  /\ file = NoFile
  /\ store = loadFromFile(file, "ok", now)
  /\ ref = EmptyStore
  /\ cev = [NoCev EXCEPT !.op = "construct", !.io = "ok", !.inst = 2]
  /\ lastSet = NeverSet
  /\ clearedKeys = {}
  /\ degraded = FALSE
  /\ afterClear = "no"
  /\ NoTweet
  /\ timer = NoTimers
  /\ NoTools

\* the history of set() calls, without those whose entry has expired at t
Unexpired(ls, t) ==
  [k \in DOMAIN ls |->
     IF ls[k].at >= 0 /\ t >= ls[k].at + ttlMs
       THEN [at |-> -1, value |-> Undefined] ELSE ls[k]]

ShareTick ==
  /\ now < MaxTime
  /\ now' = now + 1
  /\ lastSet' = Unexpired(lastSet, now')
  /\ cev' = [NoCev EXCEPT !.op = "tick"]
  /\ UNCHANGED <<clientVars, ttlMs, store, file, pathOk, ref, clearedKeys,
                 degraded, afterClear, tweetVars, timer, toolVars>>

\* instance i restarts: new PersistentTtlCache(ttlMs, filePath)
ShareConstruct(i) ==
  LET s == loadFromFile(file, "ok", now) IN
  /\ store' = IF i = 1 THEN s ELSE store
  /\ peer' = IF i = 2 THEN s ELSE peer
  /\ cev' = [NoCev EXCEPT !.op = "construct", !.io = "ok", !.inst = i]
  /\ UNCHANGED <<clientVars, now, ttlMs, file, pathOk, ref, lastSet, clearedKeys,
                 degraded, afterClear, tweetVars, timer, tweets, nextCursor,
                 req, trev, response, recoveredIn>>

ShareGet(i, k) ==
  LET r == get(Inst(i), k, now) IN
  /\ store' = IF i = 1 THEN r.store ELSE store
  /\ peer' = IF i = 2 THEN r.store ELSE peer
  /\ cev' = [NoCev EXCEPT !.op = "get", !.key = k, !.result = r.value, !.inst = i]
  /\ UNCHANGED <<clientVars, now, ttlMs, file, pathOk, ref, lastSet, clearedKeys,
                 degraded, afterClear, tweetVars, timer, tweets, nextCursor,
                 req, trev, response, recoveredIn>>

ShareSet(i, k) ==
  LET v == ValueOf[i]
      s == set(Inst(i), k, v, now, ttlMs)
  IN
  /\ store' = IF i = 1 THEN s ELSE store
  /\ peer' = IF i = 2 THEN s ELSE peer
  /\ file' = saveToFile(s, file, "ok")
  /\ lastSet' = [lastSet EXCEPT ![k] = [at |-> now, value |-> v]]
  /\ cev' = [NoCev EXCEPT !.op = "set", !.key = k, !.value = v, !.io = "ok",
               !.inst = i, !.fileWas = file.kind]
  /\ UNCHANGED <<clientVars, now, ttlMs, pathOk, ref, clearedKeys,
                 degraded, afterClear, tweetVars, timer, tweets, nextCursor,
                 req, trev, response, recoveredIn>>

ShareNext ==
  \/ ShareTick
  \/ \E i \in Instances : ShareConstruct(i)
  \/ \E i \in Instances, k \in Keys : ShareGet(i, k)
  \/ \E i \in Instances, k \in Keys : ShareSet(i, k)

ShareSpec == ShareInit /\ [][ShareNext]_vars

\* ------------------------------------------- analyzeMedia and getTweet
ALLOWED_MEDIA_DOMAINS == {"pbs.twimg.com", "video.twimg.com", "ton.twimg.com"}

Urls == {"", "not a url",
         "https://pbs.twimg.com/media/a.jpg",
         "https://video.twimg.com/v/1.mp4",
         "https://ton.twimg.com/i/b.png",
         "https://evil.example/x.png",
         "https://pbs.twimg.com.evil.example/a.jpg"}

\* new URL(u).hostname, "invalid" when the constructor throws
hostname(u) ==
  CASE u = "https://pbs.twimg.com/media/a.jpg" -> "pbs.twimg.com"
    [] u = "https://video.twimg.com/v/1.mp4" -> "video.twimg.com"
    [] u = "https://ton.twimg.com/i/b.png" -> "ton.twimg.com"
    [] u = "https://evil.example/x.png" -> "evil.example"
    [] u = "https://pbs.twimg.com.evil.example/a.jpg" -> "pbs.twimg.com.evil.example"
    [] OTHER -> "invalid"

\* the URL validation of analyzeMedia() accepting every URL that parses
urlAllowedAnyHost(u) ==
  /\ u # ""
  /\ hostname(u) # "invalid"

\* the URL validation of analyzeMedia(): TRUE when it goes on to the request
urlAllowed(u) ==
  /\ u # ""
  /\ hostname(u) # "invalid"
  /\ hostname(u) \in ALLOWED_MEDIA_DOMAINS

\* what chat.completions.create() settles with: a description, a response
\* without content, or an error class of the transport
VisionResponses == {"description", "blank"} \cup UpstreamErrors

\* analyzeMedia() after its await: what it throws and the summary it returns
analyzeMediaResult(r) ==
  [threw |-> IF r \in {"AuthenticationError", "PermissionDeniedError"}
               THEN "GrokAuthError" ELSE "none",
   summary |-> IF r = "description" THEN "summary" ELSE ""]

\* media items of a tweet (MediaSchema): url is a string, thumbnail_url optional
MediaItems ==
  { [type |-> "image", url |-> "https://pbs.twimg.com/media/a.jpg", thumbnail_url |-> "undefined"],
    [type |-> "image", url |-> "https://evil.example/x.png", thumbnail_url |-> "undefined"],
    [type |-> "video", url |-> "https://video.twimg.com/v/1.mp4",
     thumbnail_url |-> "https://pbs.twimg.com/media/a.jpg"],
    [type |-> "video", url |-> "https://video.twimg.com/v/1.mp4", thumbnail_url |-> "undefined"],
    [type |-> "video", url |-> "https://video.twimg.com/v/1.mp4", thumbnail_url |-> ""] }

MediaLists == UNION { [1..n -> MediaItems] : n \in 0..MaxMedia }
\* result.id against the requested id
\* the id getTweet asks for (extractTweetId of its input) and the ids a tweet
\* returned by query() may carry: that one, the empty one, another one
tweetId == "1234567890"
TweetIds == {tweetId, "", "9999999999"}

\* the test of line 57 without its comparison with the requested id
notFoundEmptyOnly(id, requested) == id = ""

\* the test of line 57: !result.id || result.id !== tweetId
notFound(id, requested) == id = "" \/ id # requested

\* item.type === "video" ? (item.thumbnail_url ?? item.url) : item.url
urlToAnalyze(it) ==
  IF it.type = "video"
    THEN IF it.thumbnail_url = "undefined" THEN it.url ELSE it.thumbnail_url
    ELSE it.url

\* the map callback of getTweet up to its first suspension
startStatus(it) ==
  LET u == urlToAnalyze(it) IN
  IF u = "" \/ u = "undefined" THEN "skipped"
  ELSE IF urlAllowed(u) THEN "awaiting"
  ELSE "blocked"

TweetInit ==
  /\ ClientIdle
  /\ now = 0
  /\ NoCache
  /\ NoTweet
  /\ timer = NoTimers
  /\ NoTools

\* getTweet() up to the await inside query()
GetTweetCall ==
  /\ ~enriching
  /\ \A i \in Slots : item[i] # "awaiting"
  /\ QueryCallStep(1)
  /\ item' = [i \in Slots |-> "none"]
  /\ tev' = [NoTev EXCEPT !.op = "getTweet", !.threw = ev'.threw,
               !.outcome = IF ev'.threw # "none" THEN "threw" ELSE "pending"]
  /\ UNCHANGED <<enriching, direct, cacheVars, toolVars, timer>>

\* getTweet() from the return of query() to its own return, throw, or
\* suspension at Promise.all with one analyzeMedia() started per media item
GetTweetResume(r, id, media) ==
  /\ ~enriching
  /\ QueryResumeStep(1, r)
  /\ IF ev'.threw # "none"
       THEN /\ tev' = [NoTev EXCEPT !.op = "resume", !.cause = r,
                         !.threw = ev'.threw, !.outcome = "threw"]
            /\ UNCHANGED <<enriching, item>>
       ELSE IF notFound(id, tweetId)
       THEN /\ tev' = [NoTev EXCEPT !.op = "resume", !.cause = id,
                         !.threw = "Error", !.outcome = "threw",
                         !.message = "Tweet not found"]
            /\ UNCHANGED <<enriching, item>>
       ELSE LET st == [i \in Slots |->
                         IF i <= Len(media) THEN startStatus(media[i]) ELSE "none"]
                busy == \E i \in Slots : st[i] = "awaiting"
            IN
            /\ item' = st
            /\ enriching' = busy
            /\ tev' = [NoTev EXCEPT !.op = "resume", !.cause = id,
                         !.afterMatch = TRUE,
                         !.outcome = IF busy THEN "pending" ELSE "returned",
                         !.issued = {urlToAnalyze(media[i]) :
                                       i \in {j \in 1..Len(media) : st[j] = "awaiting"}}]
  /\ UNCHANGED <<direct, cacheVars, toolVars, timer>>

\* the vision call of media item i settles: analyzeMedia() returns or throws,
\* the map callback finishes, and Promise.all settles when this was the last
\* item or the first rejection
MediaSettle(i, r) ==
  LET a == analyzeMediaResult(r)
      st == IF a.threw # "none" THEN "rejected"
            ELSE IF a.summary # "" THEN "summary" ELSE "plain"
      last == \A j \in Slots \ {i} : item[j] # "awaiting"
  IN
  /\ item[i] = "awaiting"
  /\ item' = [item EXCEPT ![i] = st]
  /\ enriching' = (enriching /\ a.threw = "none" /\ ~last)
  /\ tev' = [NoTev EXCEPT !.op = "settle", !.cause = r, !.result = a.summary,
               !.afterMatch = enriching,
               !.threw = IF enriching THEN a.threw ELSE "none",
               !.outcome = IF ~enriching THEN "none"
                           ELSE IF a.threw # "none" THEN "threw"
                           ELSE IF last THEN "returned" ELSE "pending"]
  /\ UNCHANGED <<clientVars, now, direct, cacheVars, toolVars, timer>>

\* analyzeMedia(u, ...) called by another tool, up to its await
AnalyzeMediaCore(u) ==
  /\ direct = "idle"
  /\ direct' = IF urlAllowed(u) THEN "awaiting" ELSE "idle"
  /\ UNCHANGED <<clientVars, now, enriching, item, cacheVars, toolVars>>

\* the same step with what it is observed to do
AnalyzeMediaStep(u) ==
  /\ AnalyzeMediaCore(u)
  /\ tev' = [NoTev EXCEPT !.op = "analyze", !.url = u,
               !.request = urlAllowed(u),
               !.result = IF urlAllowed(u) THEN "none" ELSE ""]

AnalyzeMedia(u) == AnalyzeMediaStep(u) /\ UNCHANGED timer

\* analyzeMedia() reporting the failures of the vision call to the breaker
AnalyzeSettleCoreCounts(r) ==
  /\ direct = "awaiting"
  /\ direct' = "idle"
  /\ IF r \in UpstreamErrors
       THEN SetBreaker(onFailure(Breaker, now))
       ELSE UNCHANGED breakerVars
  /\ UNCHANGED <<pc, ev, openedAt, streak, fresh, probe, ntRun, now, enriching,
                 item, cacheVars, toolVars>>

\* that analyzeMedia() from its await to its return or throw
AnalyzeSettleCore(r) ==
  /\ direct = "awaiting"
  /\ direct' = "idle"
  /\ UNCHANGED <<clientVars, now, enriching, item, cacheVars, toolVars>>

\* the same step with what it is observed to do
AnalyzeSettleStep(r) ==
  LET a == analyzeMediaResult(r) IN
  /\ AnalyzeSettleCore(r)
  /\ tev' = [NoTev EXCEPT !.op = "analyzed", !.cause = r, !.threw = a.threw,
               !.result = IF a.threw = "none" THEN a.summary ELSE "none"]

AnalyzeSettle(r) == AnalyzeSettleStep(r) /\ UNCHANGED timer

TweetNext ==
  \/ Tick
  \/ GetTweetCall
  \/ \E r \in Responses \ {"valid"} : GetTweetResume(r, "", <<>>)
  \/ \E id \in TweetIds \ {tweetId} : GetTweetResume("valid", id, <<>>)
  \/ \E media \in MediaLists : GetTweetResume("valid", tweetId, media)
  \/ \E i \in Slots, r \in VisionResponses : MediaSettle(i, r)
  \/ \E u \in Urls : AnalyzeMedia(u)
  \/ \E r \in VisionResponses : AnalyzeSettle(r)

TweetSpec == TweetInit /\ [][TweetNext]_vars

\* ------------------------------------- upstream calls under their timeouts
\* timeout of the OpenAI client and of the vision request, in units of 30 s
QueryTimeout == 2
VisionTimeout == 1
MaxRetries == 3

\* errors on which the transport sends the request again (429, 5xx, network)
RetriedErrors == {"RateLimitError", "InternalServerError", "APIConnectionError"}

\* a request timer that is never armed
timedOutNever(d, t) == FALSE

\* the timer of an attempt armed for deadline d has fired at time t
timedOut(d, t) == t >= d

inFlight(c) == IF c = 0 THEN direct = "awaiting" ELSE pc[c] = "awaiting"
timeoutOf(c) == IF c = 0 THEN VisionTimeout ELSE QueryTimeout

\* the transport sends the request of call c again
Retry(c) ==
  /\ timer[c].attempt < MaxRetries
  /\ timer' = [timer EXCEPT ![c] = [deadline |-> now + timeoutOf(c),
                                     attempt |-> timer[c].attempt + 1,
                                     timedOut |-> FALSE]]
  /\ UNCHANGED <<clientVars, now, cacheVars, toolVars, tweetVars>>

\* the awaited promise of call c settles with r
Settle(c, r) ==
  /\ IF c = 0 THEN AnalyzeSettleCore(r) /\ UNCHANGED tev
               ELSE /\ QueryResumeCore(c, r)
                    /\ UNCHANGED <<ev, openedAt, streak, fresh, probe, ntRun>>
                    /\ UNCHANGED <<cacheVars, toolVars, tweetVars>>

\* a client whose breaker opens on the first counted failure, so that calls
\* are both refused and let through within the horizon
LiveInit ==
  /\ failureThreshold = 1
  /\ retryTimeoutMs = 1
  /\ state = "closed"
  /\ failureCount = 0
  /\ nextAttemptAt = 0
  /\ pc = [c \in Clients |-> "idle"]
  /\ ev = NoEv
  /\ openedAt = -1
  /\ streak = 0
  /\ fresh = TRUE
  /\ probe = 0
  /\ ntRun = 0
  /\ now = 0
  /\ NoCache
  /\ NoTweet
  /\ timer = NoTimers
  /\ NoTools

\* Date.now() advances; past MaxTime only up to the deadline of a call in flight
LiveTick ==
  /\ \/ now < MaxTime
     \/ \E c \in Calls : inFlight(c) /\ now < timer[c].deadline
  /\ now' = now + 1
  /\ UNCHANGED <<clientVars, extVars>>

LiveQuery ==
  /\ now <= MaxTime
  /\ QueryCallCore(1)
  /\ UNCHANGED <<ev, openedAt, streak, fresh, probe, ntRun>>
  /\ timer' = [timer EXCEPT ![1] =
                 IF pc'[1] = "awaiting"
                   THEN [NoTimer EXCEPT !.deadline = now + QueryTimeout]
                   ELSE NoTimer]
  /\ UNCHANGED <<cacheVars, toolVars, tweetVars>>

LiveAnalyze(u) ==
  /\ now <= MaxTime
  /\ AnalyzeMediaCore(u)
  /\ UNCHANGED tev
  /\ timer' = [timer EXCEPT ![0] =
                 IF direct' = "awaiting"
                   THEN [NoTimer EXCEPT !.deadline = now + VisionTimeout]
                   ELSE NoTimer]

\* the upstream answers call c with r: the transport retries or hands r on
LiveAnswer(c, r) ==
  /\ inFlight(c)
  /\ IF r \in RetriedErrors /\ timer[c].attempt < MaxRetries
       THEN Retry(c)
       ELSE /\ Settle(c, r)
            /\ timer' = [timer EXCEPT ![c] = NoTimer]

\* the timer of call c fires: the transport retries or gives up
LiveTimeout(c) ==
  /\ inFlight(c)
  /\ timedOut(timer[c].deadline, now)
  /\ IF timer[c].attempt < MaxRetries
       THEN Retry(c)
       ELSE /\ Settle(c, "APIConnectionError")
            /\ timer' = [timer EXCEPT ![c] = [NoTimer EXCEPT !.timedOut = TRUE]]

LiveNext ==
  \/ LiveTick
  \/ LiveQuery
  \/ \E u \in Urls : LiveAnalyze(u)
  \/ \E r \in Responses : LiveAnswer(1, r)
  \/ \E r \in VisionResponses : LiveAnswer(0, r)
  \/ \E c \in Calls : LiveTimeout(c)

\* the clock advances and an expired timer fires; the upstream owes nothing
LiveSpec ==
  /\ LiveInit
  /\ [][LiveNext]_vars
  /\ WF_vars(LiveTick)
  /\ \A c \in Calls : WF_vars(LiveTimeout(c))

\* ------------------------------------------------------ computeNextCursor
\* ids a tweet of the page may carry: decimal ids, among them a pair whose
\* order as strings differs from their order as numbers, a non-numeric id,
\* and the empty id asked of Grok for a tweet it cannot find
CursorIds == {"7", "9", "10", "abc", ""}

\* BigInt(s): the value, or the SyntaxError it throws
BigInt(s) ==
  CASE s = "7" -> [threw |-> FALSE, n |-> 7]
    [] s = "9" -> [threw |-> FALSE, n |-> 9]
    [] s = "10" -> [threw |-> FALSE, n |-> 10]
    [] s = "" -> [threw |-> FALSE, n |-> 0]
    [] OTHER -> [threw |-> TRUE, n |-> 0]

\* the reduce callback of lines 76-82
cursorStep(minId, tweet) ==
  IF BigInt(tweet.id).threw \/ BigInt(minId).threw THEN minId
  ELSE IF BigInt(tweet.id).n < BigInt(minId).n THEN tweet.id ELSE minId

RECURSIVE cursorReduce(_, _, _)
cursorReduce(ts, i, minId) ==
  IF i > Len(ts) THEN minId ELSE cursorReduce(ts, i + 1, cursorStep(minId, ts[i]))

computeNextCursor(ts) ==
  IF Len(ts) = 0 THEN Undefined ELSE cursorReduce(ts, 1, ts[1].id)

RECURSIVE Pages(_)
\* the arrays of at most n tweets
Pages(n) ==
  IF n = 0 THEN {<<>>}
  ELSE Pages(n - 1) \cup
       {Append(ts, [id |-> id]) : ts \in {p \in Pages(n - 1) : Len(p) = n - 1},
                                  id \in CursorIds}

\* a page of tweets returned by query(), next_cursor not computed yet
CursorInit ==
  /\ ClientIdle
  /\ now = 0
  /\ NoCache
  /\ NoTweet
  /\ timer = NoTimers
  /\ tweets \in Pages(MaxTweets)
  /\ nextCursor = "pending"
  /\ req = [c \in Clients |-> "none"]
  /\ trev = NoTrev
  /\ response = NoResponse
  /\ recoveredIn = "no"
  /\ peer = EmptyStore

\* next_cursor: computeNextCursor(result.tweets)
ComputeNextCursor ==
  /\ nextCursor = "pending"
  /\ nextCursor' = computeNextCursor(tweets)
  /\ UNCHANGED <<clientVars, now, cacheVars, tweetVars, timer, tweets, req,
                 trev, response, recoveredIn, peer>>

CursorNext == ComputeNextCursor

CursorSpec == CursorInit /\ [][CursorNext]_vars

\* ------------------------------------------------- run() and getTrending
\* the ttl of trendingCache, 5 * 60_000 ms, in units of 150 s
TrendingTtl == 2

\* inputs of get_trending: category and country, each optional
TrendingInputs == {[category |-> " Tech ", country |-> Undefined],
                   [category |-> "tech", country |-> Undefined],
                   [category |-> "", country |-> "FR"]}
\* the topics a valid response of the upstream may hold
Topics == {"topicsA", "topicsB"}
\* the tool calls that may be under way together
TrendCallers == {1, 2}

toLowerCase(str) ==
  CASE str = " Tech " -> " tech "
    [] str = "FR" -> "fr"
    [] OTHER -> str

trim(str) ==
  CASE str = " Tech " -> "Tech"
    [] str = " tech " -> "tech"
    [] OTHER -> str

\* input.x ? input.x.toLowerCase().trim() : ""
suffix(x) == IF x = Undefined \/ x = "" THEN "" ELSE trim(toLowerCase(x))

cacheKey(input) == suffix(input.category) \o "|" \o suffix(input.country)

TrendKeys == {cacheKey(input) : input \in TrendingInputs}

\* a test of line 68 that never takes the cached value
isCachedNever(cached) == FALSE

\* if (cached): the cached values are objects, undefined is falsy
isCached(cached) == cached # Undefined

\* what the tool function awaited by run() settles with
Resolved(v) == [threw |-> "none", value |-> v, message |-> "", isError |-> FALSE]
Threw(class) == [threw |-> class, value |-> Undefined,
                 message |-> "message of " \o class, isError |-> TRUE]

\* run() returning the error text without its "Error: " prefix
runBareMessage(out) ==
  IF out.threw = "none"
    THEN [content |-> <<[type |-> "text", text |-> <<"JSON", out.value>>]>>]
    ELSE LET message == IF out.isError THEN out.message ELSE "String of " \o out.threw
         IN [isError |-> TRUE,
             content |-> <<[type |-> "text", text |-> <<"", message>>]>>]

\* run(tool, fn) once fn has settled with out: the MCP response it returns;
\* text is JSON.stringify(result, null, 2) or `Error: ${message}`
run(out) ==
  IF out.threw = "none"
    THEN [content |-> <<[type |-> "text", text |-> <<"JSON", out.value>>]>>]
    ELSE LET message == IF out.isError THEN out.message ELSE "String of " \o out.threw
         IN [isError |-> TRUE,
             content |-> <<[type |-> "text", text |-> <<"Error: ", message>>]>>]

\* the server after start-up: trendingCache empty (CACHE_DIR unset), breaker
\* closed, no tool call under way
TrendInit ==
  /\ failureThreshold = 1
  /\ retryTimeoutMs = MaxRetryTimeoutMs
  /\ state = "closed"
  /\ failureCount = 0
  /\ nextAttemptAt = 0
  /\ now = 0
  /\ pc = [c \in Clients |-> "idle"]
  /\ ev = NoEv
  /\ openedAt = -1
  /\ streak = 0
  /\ fresh = TRUE
  /\ probe = 0
  /\ ntRun = 0
  /\ ttlMs = TrendingTtl
  /\ store = EmptyStore
  /\ file = NoFile
  /\ pathOk = TRUE
  /\ ref = EmptyStore
  /\ cev = NoCev
  /\ lastSet = [k \in TrendKeys |-> [at |-> -1, value |-> Undefined]]
  /\ clearedKeys = {}
  /\ degraded = FALSE
  /\ afterClear = "no"
  /\ NoTweet
  /\ timer = NoTimers
  /\ NoTools

\* Date.now() advances
TrendTick ==
  /\ now < MaxTime
  /\ now' = now + 1
  /\ UNCHANGED <<clientVars, extVars>>

\* the history of set() calls, without those made a ttl or more before t
Recent(ls, t) ==
  [k \in DOMAIN ls |->
     IF ls[k].at >= 0 /\ t - ls[k].at >= TrendingTtl
       THEN [at |-> -1, value |-> Undefined] ELSE ls[k]]

\* run("get_trending", () => getTrending(grok, input)) up to the return of
\* the cached value, the GrokCircuitOpenError of query(), or the await of
\* the upstream call
TrendCall(c, input) ==
  LET key == cacheKey(input)
      g == get(store, key, now)
      seen == [NoTrev EXCEPT !.op = "call", !.client = c, !.key = key,
                 !.category = input.category]
  IN
  /\ pc[c] = "idle"
  /\ store' = g.store
  /\ IF isCached(g.value)
       THEN /\ trev' = [seen EXCEPT !.hit = TRUE, !.result = g.value,
                          !.outcome = "resolved"]
            /\ response' = run(Resolved(g.value))
            /\ UNCHANGED <<breakerVars, pc, now, req>>
       ELSE /\ QueryCallCore(c)
            /\ IF check(Breaker, now).threw
                 THEN /\ trev' = [seen EXCEPT !.query = TRUE, !.outcome = "threw",
                                    !.threw = "GrokCircuitOpenError",
                                    !.message = Threw("GrokCircuitOpenError").message]
                      /\ response' = run(Threw("GrokCircuitOpenError"))
                      /\ req' = req
                 ELSE /\ trev' = [seen EXCEPT !.query = TRUE, !.outcome = "pending"]
                      /\ response' = NoResponse
                      /\ req' = [req EXCEPT ![c] = key]
  /\ lastSet' = Recent(lastSet, now)
  /\ UNCHANGED <<ev, openedAt, streak, fresh, probe, ntRun, ttlMs, file, pathOk,
                 ref, cev, clearedKeys, degraded, afterClear, tweetVars,
                 timer, tweets, nextCursor, recoveredIn, peer>>

\* the same call from the settling of the upstream call with r (v being the
\* topics of a valid response) to the response run() returns
TrendResume(c, r, v) ==
  LET thrown == IF r \in UpstreamErrors THEN rethrowApiError(r) ELSE payloadError(r)
      seen == [NoTrev EXCEPT !.op = "resume", !.client = c, !.key = req[c],
                 !.query = TRUE]
  IN
  /\ QueryResumeCore(c, r)
  /\ req' = [req EXCEPT ![c] = "none"]
  /\ IF thrown = "none"
       THEN /\ store' = set(store, req[c], v, now, ttlMs)
            /\ lastSet' = [Recent(lastSet, now) EXCEPT
                             ![req[c]] = [at |-> now, value |-> v]]
            /\ trev' = [seen EXCEPT !.result = v, !.outcome = "resolved",
                               !.raced = req[c] \in DOMAIN store]
            /\ response' = run(Resolved(v))
       ELSE /\ trev' = [seen EXCEPT !.outcome = "threw", !.threw = thrown,
                          !.message = Threw(thrown).message]
            /\ response' = run(Threw(thrown))
            /\ lastSet' = Recent(lastSet, now)
            /\ UNCHANGED store
  /\ UNCHANGED <<ev, openedAt, streak, fresh, probe, ntRun, ttlMs, file, pathOk,
                 ref, cev, clearedKeys, degraded, afterClear, tweetVars, timer,
                 tweets, nextCursor, recoveredIn, peer>>

TrendNext ==
  \/ TrendTick
  \/ \E c \in TrendCallers, input \in TrendingInputs : TrendCall(c, input)
  \/ \E c \in TrendCallers, r \in Responses \ {"valid"} :
       TrendResume(c, r, Undefined)
  \/ \E c \in TrendCallers, v \in Topics : TrendResume(c, "valid", v)

TrendSpec == TrendInit /\ [][TrendNext]_vars

\* ------------------------------------------------ recovery of the upstream
\* the query() callers followed while the upstream fails and recovers
RecCallers == {1, 2}

RecInit ==
  /\ failureThreshold \in 1..MaxFailureThreshold
  /\ retryTimeoutMs \in 1..MaxRetryTimeoutMs
  /\ state = "closed"
  /\ failureCount = 0
  /\ nextAttemptAt = 0
  /\ pc = [c \in Clients |-> "idle"]
  /\ ev = NoEv
  /\ openedAt = -1
  /\ streak = 0
  /\ fresh = TRUE
  /\ probe = 0
  /\ ntRun = 0
  /\ now = 0
  /\ NoCache
  /\ NoTweet
  /\ timer = NoTimers
  /\ NoTools

\* Date.now() advances; past MaxTime only up to the deadline of an open breaker
RecTick ==
  /\ \/ now < MaxTime
     \/ state = "open" /\ now < nextAttemptAt
  /\ now' = now + 1
  /\ UNCHANGED <<clientVars, extVars>>

\* caller c calls query()
RecQuery(c) ==
  /\ QueryCallCore(c)
  /\ UNCHANGED <<ev, openedAt, streak, fresh, probe, ntRun, extVars>>

\* the upstream answers the request of caller c with r; once it has
\* recovered every request succeeds
RecAnswer(c, r) ==
  /\ r \in UpstreamErrors => (recoveredIn = "no" /\ now <= MaxTime)
  /\ QueryResumeCore(c, r)
  /\ UNCHANGED <<ev, openedAt, streak, fresh, probe, ntRun, extVars>>

\* the upstream recovers: from here on every request succeeds
Recover ==
  /\ recoveredIn = "no"
  /\ recoveredIn' = state
  /\ UNCHANGED <<clientVars, now, cacheVars, tweetVars, timer, tweets,
                 nextCursor, req, trev, response, peer>>

RecNext ==
  \/ RecTick
  \/ \E c \in RecCallers : RecQuery(c)
  \/ \E c \in RecCallers, r \in Responses : RecAnswer(c, r)
  \/ Recover

\* time advances, query() keeps being called, and requests are answered
RecoverSpec ==
  /\ RecInit
  /\ [][RecNext]_vars
  /\ WF_vars(RecTick)
  /\ \A c \in RecCallers : WF_vars(RecQuery(c))
  /\ \A c \in RecCallers : WF_vars(\E r \in Payloads : RecAnswer(c, r))

\* ------------------------------------------------- claims on BreakerSpec

\* C1: on a fresh breaker with threshold N, while fewer than N onFailure()
\* calls have been made (and no onSuccess()) the state is closed and check()
\* does not throw; the onFailure() call that is the Nth moves it to open.
C1_Threshold ==
  [][ /\ (fresh' /\ streak' < failureThreshold')
           => (state' = "closed" /\ ~check(Breaker', now').threw)
      /\ (ev'.op = "onFailure" /\ fresh' /\ streak' = failureThreshold')
           => state' = "open" ]_vars

C1_Witness ==
  /\ ev.op = "onFailure"
  /\ fresh
  /\ failureThreshold >= 3
  /\ streak = failureThreshold
  /\ state = "open"

\* C2: while the breaker is open, opened at t0 = openedAt, a check() made
\* strictly before t0 + retryTimeoutMs throws GrokCircuitOpenError and leaves
\* it open; a check() made at or after t0 + retryTimeoutMs returns and sets
\* the state to half-open.
C2_Timing ==
  [][ (ev'.op = "check" /\ state = "open") =>
        IF now < openedAt + retryTimeoutMs
          THEN ev'.threw = "GrokCircuitOpenError" /\ state' = "open"
          ELSE ev'.threw = "none" /\ state' = "half-open" ]_vars

C2_Witness ==
  /\ ev.op = "check"
  /\ ev.from = "open"
  /\ ev.threw = "none"
  /\ state = "half-open"
  /\ retryTimeoutMs >= 2
  /\ now = openedAt + retryTimeoutMs

\* C3: from half-open, onSuccess() gives closed with failureCount = 0, and one
\* onFailure() gives open with nextAttemptAt = now + retryTimeoutMs, whatever
\* the threshold and the count; check() then throws exactly at the instants
\* before that deadline.
C3_HalfOpenResolution ==
  [][ state = "half-open" =>
        /\ ev'.op = "onSuccess" => (state' = "closed" /\ failureCount' = 0)
        /\ ev'.op = "onFailure" =>
             /\ state' = "open"
             /\ nextAttemptAt' = now + retryTimeoutMs
             /\ \A t \in now..(MaxTime + MaxRetryTimeoutMs) :
                  check(Breaker', t).threw <=> t < now + retryTimeoutMs ]_vars

C3_Witness ==
  /\ ev.op = "onFailure"
  /\ ev.from = "half-open"
  /\ failureThreshold >= 2
  /\ state = "open"
  /\ nextAttemptAt = now + retryTimeoutMs

\* C4: in the closed state failureCount is the number of onFailure() calls
\* since the last onSuccess(), so an onFailure() opens the closed breaker
\* exactly when it is the failureThreshold-th call with no onSuccess() between.
C4_ResetOnSuccess ==
  [][ /\ state' = "closed" => (failureCount' = streak' /\ streak' < failureThreshold')
      /\ (ev'.op = "onFailure" /\ state = "closed")
           => (state' = "open" <=> streak' >= failureThreshold) ]_vars

C4_Witness ==
  /\ ev.op = "onFailure"
  /\ ~fresh
  /\ failureThreshold >= 3
  /\ streak = failureThreshold - 1
  /\ state = "closed"

\* -------------------------------------------------------- claims on Spec

\* C5: a query() whose upstream call fails with an authentication,
\* permission-denied or rate-limit error makes no breaker call and leaves
\* state, failureCount and nextAttemptAt as they were; as long as every
\* upstream response so far was such a failure the breaker is closed.
C5_NonTransientIsolation ==
  [][ /\ (ev'.op = "resume" /\ ev'.cause \in NonTransientErrors)
           => (ev'.calls = <<>> /\ UNCHANGED <<state, failureCount, nextAttemptAt>>)
      /\ ntRun' >= 0 => state' = "closed" ]_vars

C5_Witness ==
  /\ ev.op = "resume"
  /\ ev.cause = "RateLimitError"
  /\ failureThreshold >= 2
  /\ ntRun >= failureThreshold
  /\ state = "closed"

\* C6: a query() called while the breaker is open and nextAttemptAt is not
\* reached throws GrokCircuitOpenError, starts no upstream request and leaves
\* state, failureCount and nextAttemptAt unchanged.
C6_FailFast ==
  [][ (ev'.op = "call" /\ state = "open" /\ now < nextAttemptAt) =>
        /\ ev'.threw = "GrokCircuitOpenError"
        /\ ~ev'.upstream
        /\ pc' = pc
        /\ UNCHANGED <<state, failureCount, nextAttemptAt>> ]_vars

C6_Witness ==
  /\ ev.op = "call"
  /\ ev.threw = "GrokCircuitOpenError"
  /\ ~ev.upstream
  /\ state = "open"
  /\ now < nextAttemptAt
  /\ \E c \in Clients : pc[c] = "awaiting"

\* C7: once the breaker has opened (at openedAt), no query() starts an
\* upstream request before openedAt + retryTimeoutMs, whatever the queries
\* already in flight do in between.
C7_NoRequestInWindow ==
  [][ (ev'.op = "call" /\ ev'.upstream)
        => ~(openedAt >= 0 /\ now < openedAt + retryTimeoutMs) ]_vars

\* C8: while the breaker is half-open and the probe let through by the
\* open -> half-open check() is still awaiting its response, no other query()
\* starts an upstream request.
C8_SingleProbe ==
  [][ (ev'.op = "call" /\ ev'.upstream /\ state = "half-open")
        => ~(probe # 0 /\ pc[probe] = "awaiting") ]_vars

\* C9: a query() whose upstream call fails with any other error calls
\* onFailure() once and nothing else on the breaker, and throws.
C9_TransientCountedOnce ==
  [][ (ev'.op = "resume" /\ ev'.cause \in UpstreamErrors \ NonTransientErrors)
        => /\ ev'.calls = <<"onFailure">>
           /\ ev'.threw # "none"
           /\ pc' # pc
           /\ \/ failureCount' = failureCount + 1
              \/ state' = "open" /\ failureCount' = 0
                   /\ nextAttemptAt' = now + retryTimeoutMs ]_vars

C9_Witness ==
  /\ ev.op = "resume"
  /\ ev.cause = "InternalServerError"
  /\ ev.calls = <<"onFailure">>
  /\ ev.threw = "InternalServerError"
  /\ failureCount = 1

\* C10: every error query() throws is an instance of the typed hierarchy of
\* errors.ts: GrokAuthError, GrokRateLimitError, GrokCircuitOpenError, or
\* for every other failure the generic GrokError.
TaxonomyClasses == {"GrokAuthError", "GrokRateLimitError",
                    "GrokCircuitOpenError", "GrokError"}

C10_ClosedTaxonomy ==
  ev.op \in {"call", "resume"} => ev.threw \in TaxonomyClasses \cup {"none"}

\* C11: query() returns a value exactly when the upstream call succeeded and
\* the payload was non-empty, parsed and passed the schema; in every other
\* case (circuit open, upstream error, empty, malformed, schema violation) it
\* throws and returns nothing.
C11_NeverSwallows ==
  /\ ev.op = "resume" =>
        /\ ev.returned <=> ev.cause = "valid"
        /\ ev.threw # "none" <=> ev.cause # "valid"
  /\ ev.op = "call" =>
        /\ ~ev.returned
        /\ ev.threw # "none" <=> ev.cause = "circuit"
        /\ ev.threw # "none" <=> ~ev.upstream

C11_Witness ==
  /\ ev.op = "resume"
  /\ ev.cause = "schemaInvalid"
  /\ ev.threw = "ZodError"
  /\ ~ev.returned

\* ----------------------------------------------------- claims on TtlSpec

\* C12 as stated: after set(k, v) at time t with no later set(k) or clear(),
\* get(k) returns v at every instant strictly before t + ttl and returns
\* absent once ttl milliseconds have elapsed, i.e. from t + ttl on.
C12_AbsentOnceTtlElapsed ==
  (cev.op = "get" /\ lastSet[cev.key].at >= 0) =>
    IF now < lastSet[cev.key].at + ttlMs
      THEN cev.result = lastSet[cev.key].value
      ELSE cev.result = Undefined

\* C12 amended: after set(k, v) at time t with no later set(k) or clear(),
\* get(k) returns v at every instant up to and including t + ttl, and
\* returns absent at every instant strictly after t + ttl.
C12_TtlWindow ==
  (cev.op = "get" /\ lastSet[cev.key].at >= 0) =>
    IF now <= lastSet[cev.key].at + ttlMs
      THEN cev.result = lastSet[cev.key].value
      ELSE cev.result = Undefined

C12_Witness ==
  /\ cev.op = "get"
  /\ lastSet[cev.key].at >= 0
  /\ now = lastSet[cev.key].at + ttlMs
  /\ cev.result = lastSet[cev.key].value
  /\ cev.result # Undefined

\* C13: set(k, v2) at time t2 leaves for k the entry {v2, t2 + ttl} whatever
\* entry k had before, also one whose expiry has passed; get(k) then returns
\* v2 at every instant before t2 + ttl.
C13_OverwriteResetsExpiry ==
  [][ cev'.op = "set" =>
        /\ cev'.key \in DOMAIN store'
        /\ store'[cev'.key] = [value |-> cev'.value, expiresAt |-> now + ttlMs]
        /\ \A t \in now..(now + ttlMs - 1) :
             get(store', cev'.key, t).value = cev'.value ]_vars

C13_Witness ==
  /\ cev.op = "set"
  /\ cev.key \in DOMAIN cev.prev
  /\ cev.prev[cev.key].expiresAt < now
  /\ cev.prev[cev.key].value # cev.value
  /\ store[cev.key].expiresAt = now + ttlMs

\* C14: get(k), including the lazy deletion of an expired k, and set(k, v)
\* leave every other key as it was: present or absent, same value, same
\* expiry.
C14_KeyIndependence ==
  (cev.op \in {"get", "set"}) =>
    \A k2 \in Keys \ {cev.key} :
      /\ k2 \in DOMAIN store <=> k2 \in DOMAIN cev.prev
      /\ k2 \in DOMAIN store => store[k2] = cev.prev[k2]

C14_Witness ==
  /\ cev.op = "get"
  /\ cev.key \in DOMAIN cev.prev
  /\ cev.key \notin DOMAIN store
  /\ \E k2 \in Keys \ {cev.key} :
       k2 \in DOMAIN store /\ store[k2].expiresAt < now

\* ------------------------------------------------- claims on PersistSpec

\* C15: on construction over a file written by set(), every entry of the
\* file that is unexpired (get() of the writing instance would still return
\* it) and whose value JSON preserves is returned by get() on the new
\* instance, with the expiry it was written with.
C15_RoundTrip ==
  (cev.op = "construct" /\ cev.io = "ok" /\ file.kind = "json" /\ file.bad = "none") =>
    \A k \in DOMAIN file.data :
      (now <= file.data[k].expiresAt /\ file.data[k].value # "null") =>
        /\ get(store, k, now).value = file.data[k].value
        /\ k \in DOMAIN store
        /\ store[k].expiresAt = file.data[k].expiresAt

\* C16: an instance constructed on an inaccessible path or on a file of
\* invalid content never throws and answers every get() as a plain TtlCache
\* of the same ttl given the same calls does.
C16_DegradesToInMemory ==
  degraded =>
    /\ ~cev.threw
    /\ cev.op = "get" => cev.result = cev.refResult

\* C17 as stated: a key not set again since clear() is absent, and a cache
\* constructed after a clear() (no set() in between) starts with no entries.
C17_ClearDeletesFile ==
  /\ (cev.op = "get" /\ cev.key \in clearedKeys) => cev.result = Undefined
  /\ (cev.op = "construct" /\ afterClear # "no") => store = EmptyStore

\* C17 amended: a key not set again since clear() is absent; a clear() whose
\* unlink succeeds leaves no file, and when a clear() leaves no file a cache
\* constructed next on the path starts with no entries.
C17_Clear ==
  /\ \A k \in clearedKeys : k \notin DOMAIN store
  /\ (cev.op = "get" /\ cev.key \in clearedKeys) => cev.result = Undefined
  /\ (cev.op = "clear" /\ cev.io = "ok") => (file = NoFile /\ afterClear = "unlinked")
  /\ afterClear = "unlinked" => file = NoFile
  /\ (cev.op = "construct" /\ afterClear = "unlinked") => store = EmptyStore

C17_Witness ==
  /\ cev.op = "clear"
  /\ cev.io = "ok"
  /\ cev.live # {}
  /\ store = EmptyStore
  /\ file = NoFile

\* --------------------------------------------------- claims on TweetSpec

\* C18: once query() has returned a tweet whose id equals the requested id,
\* getTweet never throws: whatever each analyzeMedia() call does, the step
\* that ends getTweet returns the tweet.
C18_MediaNeverFailsFetch ==
  tev.afterMatch => tev.outcome \in {"pending", "returned"}

\* C19: analyzeMedia() issues its vision request exactly for a URL that
\* parses with one of the three allow-listed hostnames; for every other URL
\* (empty, malformed, other host) it returns the empty result, issues no
\* request and throws nothing. The media callbacks of getTweet issue requests
\* for such URLs only.
C19_AllowList ==
  /\ tev.op = "analyze" =>
        /\ tev.request <=>
             hostname(tev.url) \in {"pbs.twimg.com", "video.twimg.com", "ton.twimg.com"}
        /\ ~tev.request => (tev.result = "" /\ tev.threw = "none" /\ direct = "idle")
  /\ \A u \in tev.issued :
        hostname(u) \in {"pbs.twimg.com", "video.twimg.com", "ton.twimg.com"}

C19_Witness ==
  /\ tev.op = "analyze"
  /\ tev.url = "https://pbs.twimg.com.evil.example/a.jpg"
  /\ ~tev.request
  /\ tev.result = ""
  /\ direct = "idle"

\* ---------------------------------------------------- claims on LiveSpec

\* C20: a query() suspended at its upstream call and an analyzeMedia()
\* suspended at its vision call eventually return or throw, also when the
\* upstream never answers.
C20_Terminates ==
  /\ (pc[1] = "awaiting") ~> (pc[1] = "idle")
  /\ (direct = "awaiting") ~> (direct = "idle")

C20_Witness ==
  /\ pc[1] = "idle"
  /\ timer[1].timedOut
  /\ direct = "idle"
  /\ timer[0].timedOut

\* ------------------------------------- further claims on BreakerSpec

\* C22: every GrokCircuitOpenError thrown by check() carries
\* retryInMs = nextAttemptAt - Date.now(), and that value is greater than 0
\* and at most retryTimeoutMs.
C22_RetryIn ==
  (ev.op = "check" /\ ev.threw = "GrokCircuitOpenError") =>
    /\ ev.retryInMs = nextAttemptAt - now
    /\ ev.retryInMs > 0
    /\ ev.retryInMs <= retryTimeoutMs

\* C27: over every sequence of check(), onSuccess() and onFailure() calls the
\* state changes only from closed to open by an onFailure() reaching the
\* threshold, from open to half-open by a check() at or after nextAttemptAt,
\* from half-open to closed by onSuccess() and from half-open to open by
\* onFailure(); the breaker leaves open only through such a check().
C27_Transitions ==
  [][ state' # state =>
        \/ /\ state = "closed" /\ state' = "open"
           /\ ev'.op = "onFailure" /\ failureCount + 1 >= failureThreshold
        \/ /\ state = "open" /\ state' = "half-open"
           /\ ev'.op = "check" /\ now >= nextAttemptAt
        \/ state = "half-open" /\ state' = "closed" /\ ev'.op = "onSuccess"
        \/ state = "half-open" /\ state' = "open" /\ ev'.op = "onFailure" ]_vars

\* C29: with failureThreshold >= 1, after every completed check(),
\* onSuccess() or onFailure() call failureCount is an integer with
\* 0 <= failureCount < failureThreshold.
C29_CountBelowThreshold ==
  /\ failureCount \in Int
  /\ 0 <= failureCount
  /\ failureCount < failureThreshold

C29_Witness ==
  /\ ev.op = "onFailure"
  /\ failureThreshold >= 3
  /\ failureCount = failureThreshold - 1
  /\ ~fresh

\* C30: every step that sets the state to open, from closed at the threshold
\* or from half-open, sets nextAttemptAt = now + retryTimeoutMs and
\* failureCount = 0 in that step; no other step writes nextAttemptAt, and
\* nextAttemptAt never decreases.
C30_OpenSetsDeadline ==
  [][ /\ (state' = "open" /\ state # "open")
           => /\ ev'.op = "onFailure"
              /\ nextAttemptAt' = now + retryTimeoutMs
              /\ failureCount' = 0
      /\ nextAttemptAt' # nextAttemptAt
           => (ev'.op = "onFailure" /\ state' = "open" /\ failureCount' = 0)
      /\ nextAttemptAt' >= nextAttemptAt ]_vars

C30_Witness ==
  /\ ev.op = "onFailure"
  /\ ev.from = "closed"
  /\ state = "open"
  /\ failureThreshold >= 2
  /\ now > retryTimeoutMs
  /\ nextAttemptAt = now + retryTimeoutMs
  /\ ~fresh

\* ---------------------------------------------- further claims on Spec

\* C26: query() calls onSuccess() once the upstream call has returned a
\* response, before it looks at the payload: on an empty, malformed or
\* schema-violating payload it still sets failureCount to 0 and the state to
\* closed, makes no onFailure() call, and throws.
C26_SuccessBeforePayload ==
  [][ (ev'.op = "resume" /\ ev'.cause \in {"empty", "malformed", "schemaInvalid"})
        => /\ ev'.calls = <<"onSuccess">>
           /\ failureCount' = 0
           /\ state' = "closed"
           /\ nextAttemptAt' = nextAttemptAt
           /\ ev'.threw # "none"
           /\ ~ev'.returned ]_vars

C26_Witness ==
  /\ ev.op = "resume"
  /\ ev.cause = "malformed"
  /\ ev.from = "half-open"
  /\ ev.calls = <<"onSuccess">>
  /\ ev.threw = "Error"
  /\ state = "closed"
  /\ failureCount = 0

\* C28: under concurrent queries the breaker leaves half-open only when the
\* probe (the query let through by the check() that made it half-open)
\* completes: to closed only if the probe succeeded, to open only if it
\* failed; the completion of another query does not resolve it.
C28_ProbeResolves ==
  [][ (state = "half-open" /\ state' # "half-open") =>
        /\ ev'.op = "resume"
        /\ probe # 0 /\ pc[probe] = "awaiting" /\ pc'[probe] = "idle"
        /\ state' = "closed" => ev'.cause \in Payloads
        /\ state' = "open" => ev'.cause \in TransientErrors ]_vars

\* ----------------------------------------- further claims on TweetSpec

IsDecimalId(id) == id \in {"7", "9", "10"}
DecimalValue(id) == CASE id = "7" -> 7 [] id = "9" -> 9 [] id = "10" -> 10 [] OTHER -> -1

\* C25: computeNextCursor returns undefined for an empty array and, for any
\* other array of tweets, the id of the numerically smallest tweet of the
\* array.
C25_OldestId ==
  nextCursor # "pending" =>
    IF tweets = <<>> THEN nextCursor = Undefined
    ELSE /\ \E i \in 1..Len(tweets) : tweets[i].id = nextCursor
         /\ \A i \in 1..Len(tweets) :
              IsDecimalId(tweets[i].id) =>
                /\ IsDecimalId(nextCursor)
                /\ DecimalValue(nextCursor) <= DecimalValue(tweets[i].id)

\* ---------------------------------------------------- claims on TrendSpec

C23_RunAlwaysResponds ==
  /\ trev.outcome = "resolved" =>
        /\ DOMAIN response = {"content"}
        /\ response.content = <<[type |-> "text", text |-> <<"JSON", trev.result>>]>>
  /\ trev.outcome = "threw" =>
        /\ DOMAIN response = {"isError", "content"}
        /\ response.isError = TRUE
        /\ response.content =
             <<[type |-> "text", text |-> <<"Error: ", trev.message>>]>>

C23_Witness ==
  /\ trev.op = "resume"
  /\ trev.outcome = "threw"
  /\ trev.threw = "ZodError"
  /\ response.isError = TRUE

\* C37: a getTrending call that throws stores nothing: when query() throws
\* after the upstream call settled, the cache is left as it was; when query()
\* throws GrokCircuitOpenError, the only change is the removal by get() of the
\* expired entry of the call's key; so every cached value, and every value
\* served from the cache, is a validated result.
C37_FailureNotCached ==
  [][ /\ (trev'.op = "resume" /\ pc' # pc /\ trev'.outcome = "threw") => store' = store
      /\ (trev'.op = "call" /\ pc = pc' /\ trev'.outcome = "threw" /\ store' # store) =>
           /\ trev'.key \in DOMAIN store
           /\ now > store[trev'.key].expiresAt
           /\ store' = [k \in DOMAIN store \ {trev'.key} |-> store[k]]
      /\ \A k \in DOMAIN store' : store'[k].value \in Topics
      /\ trev'.hit => trev'.result \in Topics ]_vars

\* a call whose response was empty has thrown, and the cache holds the entry
\* of another key only
C37_Witness ==
  /\ trev.op = "resume"
  /\ trev.outcome = "threw"
  /\ trev.threw = "Error"
  /\ trev.key = "tech|"
  /\ DOMAIN store = {"|fr"}

\* C38: each getTrending call that misses the cache issues its own query(),
\* also while another call of the same key is in flight; each call whose
\* query() returns stores its result under its key with expiry equal to that
\* time plus the ttl and leaves the entries of the other keys as they were,
\* so once the calls have completed the cache holds for the key the result
\* of the call that completed last.
C38_LastWriterWins ==
  [][ /\ (trev'.op = "call" /\ ~trev'.hit /\ trev' # trev) => trev'.query
      /\ (trev'.op = "resume" /\ pc' # pc /\ trev'.outcome = "resolved") =>
           /\ trev'.key \in DOMAIN store'
           /\ store'[trev'.key] = [value |-> trev'.result, expiresAt |-> now + TrendingTtl]
           /\ \A k \in TrendKeys \ {trev'.key} :
                /\ k \in DOMAIN store' <=> k \in DOMAIN store
                /\ k \in DOMAIN store => store'[k] = store[k]
      /\ \A k \in TrendKeys :
           (lastSet'[k].at >= 0 /\ \A c \in TrendCallers : req'[c] # k) =>
             /\ k \in DOMAIN store'
             /\ store'[k] = [value |-> lastSet'[k].value,
                             expiresAt |-> lastSet'[k].at + TrendingTtl] ]_vars

\* two calls of the same key missed the cache together; the second to
\* complete has overwritten what the first had stored
C38_Witness ==
  /\ trev.op = "resume"
  /\ trev.outcome = "resolved"
  /\ trev.raced
  /\ trev.key = "tech|"
  /\ trev.result = "topicsB"
  /\ store["tech|"] = [value |-> "topicsB", expiresAt |-> now + TrendingTtl]
  /\ now > 0
  /\ \A c \in TrendCallers : pc[c] = "idle"

\* C39: no step of analyzeMedia() (its call, its settling, the settling of a
\* media item of getTweet) calls check(), onSuccess() or onFailure() or
\* changes the breaker's state, failureCount or nextAttemptAt, whatever the
\* vision call settles with; and a call on an allowed url issues its vision
\* request whatever the breaker's state.
C39_VisionBypassesBreaker ==
  [][ /\ (/\ tev'.op \in {"analyze", "analyzed", "settle"}
          /\ (tev' # tev \/ direct' # direct \/ item' # item)) =>
           /\ UNCHANGED <<state, failureCount, nextAttemptAt>>
           /\ ev' = ev
      /\ (tev'.op = "analyze" /\ tev' # tev) =>
           /\ tev'.request = urlAllowed(tev'.url)
           /\ tev'.request => direct' = "awaiting" ]_vars

\* a vision call has failed with a server error while the breaker is open
\* inside its retry window, and the breaker is still open
C39_Witness ==
  /\ tev.op = "analyzed"
  /\ tev.cause = "InternalServerError"
  /\ state = "open"
  /\ now < nextAttemptAt
  /\ direct = "idle"

\* ------------------------------------------- claims on Spec, third part

C32_Recovers == (recoveredIn # "no") ~> [](state = "closed")

\* the upstream recovered while the breaker was open, and the breaker has
\* closed since, its deadline lying beyond MaxTime
C32_Witness ==
  /\ recoveredIn = "open"
  /\ state = "closed"
  /\ failureCount = 0
  /\ now >= nextAttemptAt
  /\ nextAttemptAt > MaxTime


\* ---------------------------------------- further claims on PersistSpec

\* C33: a construction that reads a well-formed file at `now` drops every
\* entry whose expiresAt is before `now` and keeps every other entry, the one
\* whose expiresAt equals `now` included, as the file holds it; get() then
\* answers for each key of the file as get() on the written entries does.
C33_LoadKeepsUnexpired ==
  (cev.op = "construct" /\ cev.io = "ok" /\ file.kind = "json" /\ file.bad = "none") =>
    \A k \in DOMAIN file.data :
      /\ file.data[k].expiresAt < now => k \notin DOMAIN store
      /\ file.data[k].expiresAt >= now => (k \in DOMAIN store /\ store[k] = file.data[k])
      /\ get(store, k, now).value = get(file.data, k, now).value

\* C34: a construction whose load fails (file absent, unreadable, unparsable,
\* or holding a member that cannot be read as an entry) starts with an empty
\* store.
C34_FailedLoadIsEmpty ==
  (cev.op = "construct" /\ (cev.io # "ok" \/ file.kind # "json" \/ file.bad # "none")) =>
    store = EmptyStore


C36_WritersDoNotInterfere ==
  cev.op = "construct" =>
    \A k \in Keys :
      (lastSet[k].at >= 0 /\ now < lastSet[k].at + ttlMs) =>
        /\ k \in DOMAIN Inst(cev.inst)
        /\ Inst(cev.inst)[k].value = toJson(lastSet[k].value)

\* C36 amended: every set() leaves in the file the entries of the writing
\* instance's own store and no other, and a cache constructed on the file
\* sees the entries of the file that are not expired: the instance that wrote
\* the file last wins for every key.
C36_LastFileWriterWins ==
  /\ cev.op = "set" => file.data = serialize(Inst(cev.inst))
  /\ cev.op = "construct" =>
       /\ \A k \in DOMAIN file.data :
            file.data[k].expiresAt > now => k \in DOMAIN Inst(cev.inst)
       /\ \A k \in DOMAIN Inst(cev.inst) :
            k \in DOMAIN file.data /\ Inst(cev.inst)[k] = file.data[k]

\* both keys were set and neither has expired, instance 2 wrote the file
\* last without holding k1, and the cache constructed next sees k2 only
C36_Witness ==
  /\ cev.op = "construct" /\ cev.inst = 1
  /\ \A k \in Keys : lastSet[k].at >= 0 /\ now < lastSet[k].at + ttlMs
  /\ DOMAIN peer = {"k2"}
  /\ DOMAIN file.data = {"k2"}
  /\ DOMAIN store = {"k2"}

====
